---- MODULE Spec2Model ----
(***************************************************************************)
(* Model of src/vs/workbench/parts/scm/electron-browser/scmViewlet.ts:     *)
(* the source-control viewlet.  ProviderPanel keeps a commit input box and *)
(* a flattened (group, resources) list in step with one repository; the    *)
(* MultipleSelectionActionRunner fans a menu command out over the list     *)
(* selection; identityProvider names list elements.                        *)
(*                                                                         *)
(* Everything runs on the single UI thread: one action of this module is   *)
(* one event delivered to the panel, handled to completion, including the  *)
(* events its handlers fire synchronously.                                 *)
(***************************************************************************)
EXTENDS Integers, Sequences, FiniteSets, TLC

(***************************************************************************)
(* Bounds of the model.                                                    *)
(***************************************************************************)
\* Number of resource groups a provider can register.
MaxGroups == 2
\* Longest list selection.
MaxSelection == 3
\* Nesting depth of synchronous event deliveries that is followed before a
\* delivery chain is declared a feedback loop.
MaxDepth == 6
\* Number of repositories the registry can hold.
MaxRepositories == 6
\* Number of promises that can be unsettled at a time.
MaxPending == 2

(***************************************************************************)
(* Data: ISCMResourceGroup and ISCMResource as the viewlet reads them.     *)
(***************************************************************************)
GroupIds == 1..MaxGroups
Uris == {"a.ts", "b.ts"}

Range(s) == {s[i] : i \in 1..Len(s)}

\* The sequences of at most n distinct elements of S, in every order.
RECURSIVE DistinctSeqs(_, _)
DistinctSeqs(S, n) ==
    IF n = 0 THEN {<<>>}
    ELSE LET shorter == DistinctSeqs(S, n - 1)
             longest == {s \in shorter : Len(s) = n - 1}
         IN  shorter \cup {Append(p[1], p[2]) :
                             p \in {q \in longest \X S : q[2] \notin Range(q[1])}}

\* An ISCMResource: the group that owns it and its source location.
Resource(g, u) == [resourceGroup |-> g, sourceUri |-> u]

\* An ISCMResourceGroup.
Group(g, hide, uris) ==
    [id |-> g, hideWhenEmpty |-> hide,
     resourceCollection |->
        [resources |-> [i \in 1..Len(uris) |-> Resource(g, uris[i])]]]

\* The resource lists a group can hold: distinct locations, in any order.
UriLists == DistinctSeqs(Uris, Cardinality(Uris))

\* isSCMResource of ./scmUtil as the viewlet uses it: an element that has a
\* sourceUri is a resource, any other element is a group.
isSCMResource(e) == "sourceUri" \in DOMAIN e

(***************************************************************************)
(* State.                                                                  *)
(***************************************************************************)
VARIABLES
    phase,        \* "constructed" until renderBody has run, then "rendered"
    resources,    \* repository.provider.resources: the ordered groups
    list,         \* content of ProviderPanel.list
    removed,      \* number of items the last list.splice removed
    selection,    \* list.getSelectedElements(): indices into list, in selection order
    runs,         \* action.run calls made by the last runAction: their argument lists
    inputValue,   \* repository.input.value
    viewValue,    \* inputBox.value
    commitTemplate,      \* provider.commitTemplate, Undefined or Some(text)
    acceptInputCommand,  \* provider.acceptInputCommand, Undefined or Some(command)
    commands,     \* commandService.executeCommand calls made by the last event
    origin,       \* the event handled last: its name, its arguments and the
                  \* value the input box showed before it
    outCalls,     \* runs of the inputBox.onDidChange handler during the last event
    inCalls,      \* runs of the repository.input.onDidChange handler during the last event
    looped,       \* the last event's deliveries nested deeper than MaxDepth
    subjects,     \* the two list elements handed to identityProvider
    keys,         \* the keys identityProvider returned for them, <<>> before the calls
    providersPhase,     \* ProvidersPanel: "constructed", "rendered" or "disposed"
    repositories,       \* scmService.repositories, in registry order
    providersList,      \* content of ProvidersPanel.list
    minimumBodySize,    \* ProvidersPanel.minimumBodySize
    maximumBodySize,    \* ProvidersPanel.maximumBodySize
    statusBarCommands,  \* repository.provider.statusBarCommands of each repository
    rowActions,         \* the actions on the action bar of each rendered row
    cachedHeight,       \* ProviderPanel.cachedHeight
    editorHeight,       \* inputBox.height
    listContainerHeight,  \* the height put in listContainer.style.height
    layouts,            \* heights passed to list.layout by the last layoutBody
    scroll,             \* inputBoxContainer has the class 'scroll'
    pending,            \* the promises not settled yet, counted by kind
    opens,              \* the resources whose open() the last event called
    reports             \* the error reports the last event made

listVars == <<phase, resources, list, removed, selection, runs>>
inputVars == <<inputValue, viewValue, commitTemplate, acceptInputCommand,
               commands, origin, outCalls, inCalls, looped>>
vars == <<phase, resources, list, removed, selection, runs,
          inputValue, viewValue, commitTemplate, acceptInputCommand,
          commands, origin, outCalls, inCalls, looped, subjects, keys,
          providersPhase, repositories, providersList, minimumBodySize,
          maximumBodySize, statusBarCommands, rowActions,
          cachedHeight, editorHeight, listContainerHeight, layouts, scroll,
          pending, opens, reports>>
identityVars == <<subjects, keys>>
providersVars == <<providersPhase, repositories, providersList, minimumBodySize,
                   maximumBodySize, statusBarCommands, rowActions>>
layoutVars == <<cachedHeight, editorHeight, listContainerHeight, layouts, scroll>>
errorVars == <<pending, opens, reports>>

\* A JavaScript value where a number is expected: a number, NaN or undefined.
JsNumber(n) == [kind |-> "number", n |-> n]
JsNaN == [kind |-> "NaN", n |-> 0]
JsUndefined == [kind |-> "undefined", n |-> 0]
\* A JavaScript boolean.
JsBoolean(b) == [kind |-> "boolean", n |-> IF b THEN 1 ELSE 0]

\* !v: true for 0, NaN and undefined.
JsNot(v) == JsBoolean(v.kind \in {"NaN", "undefined"} \/ (v.kind = "number" /\ v.n = 0))
\* a === b, for b other than NaN.
JsStrictEquals(a, b) == a.kind # "NaN" /\ a = b
\* a + b and a - b over numbers: NaN once an operand is NaN or undefined.
JsAdd(a, b) ==
    IF a.kind = "number" /\ b.kind = "number" THEN JsNumber(a.n + b.n) ELSE JsNaN
JsSub(a, b) ==
    IF a.kind = "number" /\ b.kind = "number" THEN JsNumber(a.n - b.n) ELSE JsNaN
\* a >= b over numbers: false once an operand is NaN or undefined.
JsGe(a, b) == a.kind = "number" /\ b.kind = "number" /\ a.n >= b.n

\* The promises the panel observes: of a contributed command run from an
\* action item, of a resource's open(), of the accept-input command.
PromiseKinds == {"command", "open", "accept"}
NoPromise == [k \in PromiseKinds |-> 0]
\* The number of promises in p.
Total(p) == p["command"] + p["open"] + p["accept"]
\* p and one more promise of the kind k, p and one less.
Dispatched(p, k) == [p EXCEPT ![k] = @ + 1]
Settled(p, k) == [p EXCEPT ![k] = @ - 1]

\* An optional value: undefined, or a defined value.
Undefined == <<>>
Some(v) == <<v>>
IsDefined(o) == o # Undefined
Get(o) == o[1]

(***************************************************************************)
(* The list widget.                                                        *)
(***************************************************************************)
\* list.splice(start, deleteCount, elements) on content l.
Splice(l, start, deleteCount, elements) ==
    SubSeq(l, 1, start) \o elements \o SubSeq(l, start + deleteCount + 1, Len(l))

(***************************************************************************)
(* ProviderPanel.updateList.                                               *)
(***************************************************************************)
\* FlattenStep with the hideWhenEmpty test dropped: every empty group is omitted.
FlattenStepHidesEveryEmpty(r, g) ==
    IF Len(g.resourceCollection.resources) = 0
    THEN r
    ELSE (r \o <<g>>) \o g.resourceCollection.resources

\* FlattenStep with the group item emitted after its resources.
FlattenStepGroupLast(r, g) ==
    IF Len(g.resourceCollection.resources) = 0 /\ g.hideWhenEmpty
    THEN r
    ELSE (r \o g.resourceCollection.resources) \o <<g>>

\* The reducer of updateList: group g added to the elements r so far.
FlattenStep(r, g) ==
    IF Len(g.resourceCollection.resources) = 0 /\ g.hideWhenEmpty
    THEN r
    ELSE (r \o <<g>>) \o g.resourceCollection.resources

\* provider.resources.reduce(FlattenStep, []).
RECURSIVE Flatten(_)
Flatten(groups) ==
    IF groups = <<>> THEN <<>>
    ELSE FlattenStep(Flatten(SubSeq(groups, 1, Len(groups) - 1)),
                     groups[Len(groups)])

\* updateList with a splice that removes nothing.
updateListKeepsOld(l, groups) == Splice(l, 0, 0, Flatten(groups))

\* The list after updateList ran on list content l with the provider holding groups.
updateList(l, groups) == Splice(l, 0, Len(l), Flatten(groups))

(***************************************************************************)
(* The commit input: InputBox (the view) bound to repository.input.        *)
(*                                                                         *)
(* A binding state b is the part of the state the value setters and the    *)
(* two handlers touch: [view, input, subscribed, outCalls, inCalls, fuel,  *)
(* looped].  subscribed says whether renderBody's listeners are attached.  *)
(***************************************************************************)
Texts == {"", "feat: x", "wip"}
Templates == {"", "template"}

RECURSIVE InputBoxSetValue(_, _)
RECURSIVE SCMInputSetValue(_, _)

\* An outbound handler that stores something else than the value reported.
OutboundHandlerAlters(b, value) ==
    SCMInputSetValue([b EXCEPT !.outCalls = @ + 1], value \o "!")

\* value => this.repository.input.value = value
OutboundHandler(b, value) ==
    SCMInputSetValue([b EXCEPT !.outCalls = @ + 1], value)

\* value => this.inputBox.value = value
InboundHandler(b, value) ==
    InputBoxSetValue([b EXCEPT !.inCalls = @ + 1], value)

\* The input box reports its value to the inputBox.onDidChange listeners.
InputBoxFireDidChange(b) ==
    IF ~b.subscribed THEN b
    ELSE IF b.fuel = 0 THEN [b EXCEPT !.looped = TRUE]
    ELSE OutboundHandler([b EXCEPT !.fuel = @ - 1], b.view)

\* inputBox.value = v: a setter that stores v and reports it when it differs
\* from the value shown.
InputBoxSetValue(b, v) ==
    IF b.view = v THEN b
    ELSE InputBoxFireDidChange([b EXCEPT !.view = v])

\* repository.input.value = v: a setter that stores v and notifies the
\* repository.input.onDidChange listeners.
SCMInputSetValue(b, v) ==
    LET stored == [b EXCEPT !.input = v]
    IN  IF ~b.subscribed THEN stored
        ELSE IF b.fuel = 0 THEN [stored EXCEPT !.looped = TRUE]
        ELSE InboundHandler([stored EXCEPT !.fuel = @ - 1], v)

\* updateInputBox that never applies the template.
updateInputBoxIgnoresTemplate(b, t) == b

\* updateInputBox that applies the template only to an empty input box.
updateInputBoxKeepsEdits(b, t) ==
    IF ~IsDefined(t) \/ b.view # "" THEN b
    ELSE InputBoxSetValue(b, Get(t))

\* ProviderPanel.updateInputBox with the provider's commit template being t.
updateInputBox(b, t) ==
    IF ~IsDefined(t) THEN b
    ELSE InputBoxSetValue(b, Get(t))

\* The binding state at the start of an event.
Binding(subscribed) ==
    [view |-> viewValue, input |-> inputValue, subscribed |-> subscribed,
     outCalls |-> 0, inCalls |-> 0, fuel |-> MaxDepth, looped |-> FALSE]

\* The event named event with the arguments args, delivered now.
Origin(event, args) == [event |-> event, args |-> args, before |-> viewValue]

\* The binding state b becomes the state once the event o is handled.
SetBinding(b, o) ==
    /\ viewValue' = b.view
    /\ inputValue' = b.input
    /\ outCalls' = b.outCalls
    /\ inCalls' = b.inCalls
    /\ looped' = b.looped
    /\ origin' = o

(***************************************************************************)
(* Accepting the input.                                                    *)
(***************************************************************************)
Commands == {[id |-> "git.commit", arguments |-> <<>>],
             [id |-> "git.commitAll", arguments |-> <<"repo", "all">>]}

KeyCodes == {"Enter", "KEY_S", "KEY_A"}
\* A keydown event as a StandardKeyboardEvent: its modifiers and key code.
KeyEvents == [ctrlCmd : BOOLEAN, shift : BOOLEAN, keyCode : KeyCodes]

\* KeyMod.CtrlCmd | keyCode
CtrlCmd(keyCode) == [ctrlCmd |-> TRUE, shift |-> FALSE, keyCode |-> keyCode]

\* The filter of the keydown chain.
IsAcceptKey(e) == e = CtrlCmd("Enter") \/ e = CtrlCmd("KEY_S")

\* onDidAcceptInput that leaves the command's arguments out.
onDidAcceptInputWithoutArguments(c) ==
    IF ~IsDefined(c) THEN <<>>
    ELSE << <<Get(c).id>> >>

\* ProviderPanel.onDidAcceptInput: the executeCommand calls it makes when the
\* provider's acceptInputCommand is c.
onDidAcceptInput(c) ==
    IF ~IsDefined(c) THEN <<>>
    ELSE << <<Get(c).id>> \o Get(c).arguments >>

(***************************************************************************)
(* MultipleSelectionActionRunner.                                          *)
(***************************************************************************)
\* ProviderPanel.getSelectedResources on list content l and selected indices sel.
getSelectedResources(l, sel) ==
    SelectSeq([i \in 1..Len(sel) |-> l[sel[i]]], isSCMResource)

\* One action.run call: the kind of action run and the arguments passed.
Run(isMenuItemAction, arguments) ==
    [menuItemAction |-> isMenuItemAction, arguments |-> arguments]

\* runAction that passes the whole selection after the context.
runActionPassesSelection(isMenuItemAction, context, selected) ==
    IF isMenuItemAction
    THEN LET NotContext(s) == s # context
             filteredSelection == SelectSeq(selected, NotContext)
         IN  IF Len(selected) = Len(filteredSelection) \/ Len(selected) = 1
             THEN <<Run(TRUE, <<context>>)>>
             ELSE <<Run(TRUE, <<context>> \o selected)>>
    ELSE <<Run(FALSE, <<context>>)>>

\* runAction without the test that stops the fan-out.
runActionAlwaysFansOut(isMenuItemAction, context, selected) ==
    IF isMenuItemAction
    THEN LET NotContext(s) == s # context
             filteredSelection == SelectSeq(selected, NotContext)
         IN  <<Run(TRUE, <<context>> \o filteredSelection)>>
    ELSE <<Run(FALSE, <<context>>)>>

\* runAction: the action.run calls it makes for the action, the context and
\* the selected resources.
runAction(isMenuItemAction, context, selected) ==
    IF isMenuItemAction
    THEN LET NotContext(s) == s # context
             filteredSelection == SelectSeq(selected, NotContext)
         IN  IF Len(selected) = Len(filteredSelection) \/ Len(selected) = 1
             THEN <<Run(TRUE, <<context>>)>>
             ELSE <<Run(TRUE, <<context>> \o filteredSelection)>>
    ELSE <<Run(FALSE, <<context>>)>>

(***************************************************************************)
(* identityProvider.                                                       *)
(***************************************************************************)
ContextValues == {"git", "git/wt"}
IdentityGroupIds == {"wt", "index", "wt/index", "index/file:///a.ts"}
SourceUris == {[scheme |-> "file", authority |-> "", path |-> "/a.ts"],
               [scheme |-> "file", authority |-> "", path |-> "/b.ts"]}

\* r.sourceUri.toString()
UriToString(u) == u.scheme \o "://" \o u.authority \o u.path

\* The groups and resources identityProvider is applied to, with the provider
\* and group each one hangs from.
IdentityGroups ==
    {[id |-> g, provider |-> [contextValue |-> c]] :
        g \in IdentityGroupIds, c \in ContextValues}
IdentityResources ==
    {[resourceGroup |-> g, sourceUri |-> u] : g \in IdentityGroups, u \in SourceUris}

identityProvider(r) ==
    IF isSCMResource(r)
    THEN LET group == r.resourceGroup
             provider == group.provider
         IN  provider.contextValue \o "/" \o group.id \o "/" \o UriToString(r.sourceUri)
    ELSE LET provider == r.provider
         IN  provider.contextValue \o "/" \o r.id

(***************************************************************************)
(* ProvidersPanel: the list of repositories.                               *)
(***************************************************************************)
RepositoryIds == 1..MaxRepositories
StatusBarCommandLists == {<<>>, <<"git.sync">>}

\* The rows the body shows at most, and the height of a row, in updateBodySize.
BodyMaxRows == 5
BodyRowHeight == 22

\* Math.min
Min(a, b) == IF a <= b THEN a ELSE b

\* updateBodySize that sizes the body for every repository.
updateBodySizeUncapped(repos) == Len(repos) * BodyRowHeight

\* ProvidersPanel.updateBodySize: the size it gives to minimumBodySize and
\* maximumBodySize when the registry holds repos.
updateBodySize(repos) == Min(BodyMaxRows, Len(repos)) * BodyRowHeight

\* What a panel's renderBody and constructor put in this.disposables, by the
\* name of the subscription or widget.
ProvidersPanelDisposables == {"onDidAddRepository", "onDidRemoveRepository"}
ProviderPanelDisposables ==
    {"menus.onDidChangeTitle", "focusTracker", "inputBox", "inputBox.onDidChange",
     "repository.input.onDidChange", "inputBox.onDidHeightChange", "keydown",
     "onDidChangeCommitTemplate", "list", "list.onOpen", "list.onPin",
     "list.onContextMenu", "onDidChangeResources"}

\* A subscription made in renderBody is live: the panel in the phase ph has
\* rendered, and has not released it, dispose releasing what is in released.
Live(ph, released, name) ==
    \/ ph = "rendered"
    \/ ph = "disposed" /\ name \notin released

\* A subscription of the ProviderPanel is live.
Subscribed(name) == Live(phase, ProviderPanelDisposables, name)

\* The rows of a list are released with the list: ProviderRenderer.renderElement
\* subscribes each row to its provider's onDidChange, and disposeTemplate, which
\* the list's dispose runs, releases it.
RowsLive(ph, released) == Live(ph, released, "list")

\* ProviderRenderer.renderElement for every row of content l: the row of a
\* repository shows its provider's status bar commands.
RenderRows(l, statusBar) == [r \in Range(l) |-> statusBar[r]]

(***************************************************************************)
(* Initial states: the panel is constructed and not yet rendered.          *)
(***************************************************************************)
InitPanel ==
    /\ phase = "constructed"
    /\ list = <<>>
    /\ removed = 0
    /\ selection = <<>>
    /\ runs = <<>>
    /\ viewValue = ""
    /\ commands = <<>>
    /\ origin = [event |-> "constructor", args |-> <<>>, before |-> ""]
    /\ outCalls = 0
    /\ inCalls = 0
    /\ looped = FALSE

InitIdentityIdle ==
    /\ subjects = <<>>
    /\ keys = <<>>

\* A ProvidersPanel constructed over an empty registry: the constructor runs
\* updateBodySize.
InitProvidersIdle ==
    /\ providersPhase = "constructed"
    /\ repositories = <<>>
    /\ providersList = <<>>
    /\ minimumBodySize = updateBodySize(<<>>)
    /\ maximumBodySize = updateBodySize(<<>>)
    /\ statusBarCommands = [r \in RepositoryIds |-> <<>>]
    /\ rowActions = <<>>

\* No layout yet.
InitLayoutIdle ==
    /\ cachedHeight = JsUndefined
    /\ editorHeight = JsNumber(50)
    /\ listContainerHeight = JsUndefined
    /\ layouts = <<>>
    /\ scroll = FALSE

\* No command run, no resource opened.
InitErrorsIdle ==
    /\ pending = NoPromise
    /\ opens = <<>>
    /\ reports = <<>>

InitOthersIdle == InitProvidersIdle /\ InitLayoutIdle /\ InitErrorsIdle

InitInputIdle ==
    /\ inputValue = ""
    /\ commitTemplate = Undefined
    /\ acceptInputCommand = Undefined

\* A provider that has registered no group yet.
Init ==
    /\ InitPanel
    /\ InitOthersIdle
    /\ InitInputIdle
    /\ InitIdentityIdle
    /\ resources = <<>>

(***************************************************************************)
(* ProviderPanel.renderBody.                                               *)
(***************************************************************************)
RenderBody ==
    /\ phase = "constructed"
    /\ phase' = "rendered"
    /\ LET created == [Binding(FALSE) EXCEPT !.view = ""]
           shown == InputBoxSetValue(created, inputValue)
           bound == [shown EXCEPT !.subscribed = TRUE]
       IN  SetBinding(updateInputBox(bound, commitTemplate), Origin("renderBody", <<>>))
    /\ list' = updateList(<<>>, resources)
    /\ removed' = 0
    /\ selection' = <<>>
    /\ runs' = <<>>
    /\ commands' = <<>>
    /\ UNCHANGED <<resources, commitTemplate, acceptInputCommand, identityVars,
                 providersVars, layoutVars, errorVars>>

(***************************************************************************)
(* The provider changes its resources and fires onDidChangeResources.      *)
(***************************************************************************)
\* The listeners of provider.onDidChangeResources run: updateList, once the
\* panel is rendered.  The splice drops the selection with the removed items.
DidChangeResources ==
    /\ IF Subscribed("onDidChangeResources")
       THEN /\ list' = updateList(list, resources')
            /\ removed' = Len(list)
            /\ selection' = <<>>
       ELSE UNCHANGED <<list, removed, selection>>
    /\ runs' = <<>>
    /\ UNCHANGED <<phase, inputVars, identityVars,
                 providersVars, layoutVars, errorVars>>

ProviderRegisterGroup(g, hide) ==
    /\ \A i \in 1..Len(resources) : resources[i].id # g
    /\ resources' = Append(resources, Group(g, hide, <<>>))
    /\ DidChangeResources

ProviderUnregisterGroup(i) ==
    /\ i \in 1..Len(resources)
    /\ resources' = SubSeq(resources, 1, i - 1) \o SubSeq(resources, i + 1, Len(resources))
    /\ DidChangeResources

ProviderUpdateGroup(i, uris) ==
    /\ i \in 1..Len(resources)
    /\ resources' = [resources EXCEPT
                        ![i] = Group(resources[i].id, resources[i].hideWhenEmpty, uris)]
    /\ DidChangeResources

Next ==
    \/ RenderBody
    \/ \E g \in GroupIds, hide \in BOOLEAN : ProviderRegisterGroup(g, hide)
    \/ \E i \in 1..MaxGroups : ProviderUnregisterGroup(i)
    \/ \E i \in 1..MaxGroups, uris \in UriLists : ProviderUpdateGroup(i, uris)

Spec == Init /\ [][Next]_vars

(***************************************************************************)
(* Properties of the flattened list.                                       *)
(***************************************************************************)
GroupResources(g) == g.resourceCollection.resources
InList(e) == \E k \in 1..Len(list) : list[k] = e

\* C1: once the panel is rendered, the list holds every group that has a
\* resource together with all of its resources, and holds a group without
\* resources if and only if the group's hideWhenEmpty is false.
C1_FlattenedMembership ==
    phase = "rendered" =>
        \A i \in 1..Len(resources) :
            LET g == resources[i]
            IN  IF Len(GroupResources(g)) > 0
                THEN /\ InList(g)
                     /\ \A j \in 1..Len(GroupResources(g)) : InList(GroupResources(g)[j])
                ELSE InList(g) <=> ~g.hideWhenEmpty

\* A rendered list of a provider with a hidden empty group next to a group
\* with two resources.
C1_Witness ==
    /\ phase = "rendered"
    /\ Len(resources) = 2
    /\ \E i, j \in 1..Len(resources) :
        /\ Len(GroupResources(resources[i])) = 0
        /\ resources[i].hideWhenEmpty
        /\ Len(GroupResources(resources[j])) = 2
        /\ ~InList(resources[i])
        /\ InList(resources[j])

\* C2: the groups of the list are in the provider's order, each group item is
\* directly followed by exactly its own resources in the group's order, and
\* every resource of the list sits in the run that follows its group item.
C2_FlattenedOrder ==
    phase = "rendered" =>
        /\ \A k \in 1..Len(list) :
            IF isSCMResource(list[k])
            THEN \E kg \in 1..(k - 1) :
                    /\ ~isSCMResource(list[kg])
                    /\ k - kg <= Len(GroupResources(list[kg]))
                    /\ list[k] = GroupResources(list[kg])[k - kg]
            ELSE LET n == Len(GroupResources(list[k]))
                 IN  /\ k + n <= Len(list)
                     /\ \A j \in 1..n : list[k + j] = GroupResources(list[k])[j]
                     /\ k + n < Len(list) => ~isSCMResource(list[k + n + 1])
        /\ \A k1, k2 \in 1..Len(list) :
            (k1 < k2 /\ ~isSCMResource(list[k1]) /\ ~isSCMResource(list[k2])) =>
                \E i1, i2 \in 1..Len(resources) :
                    /\ i1 < i2
                    /\ resources[i1] = list[k1]
                    /\ resources[i2] = list[k2]

\* A rendered list of two groups, registered in the order 2, 1, each with two
\* resources, the first group's in the order b.ts, a.ts.
C2_Witness ==
    /\ phase = "rendered"
    /\ Len(resources) = 2
    /\ resources[1].id = 2
    /\ resources[2].id = 1
    /\ Len(list) = 6
    /\ list[2].sourceUri = "b.ts"
    /\ list[3].sourceUri = "a.ts"

\* C3: once the panel is rendered, after every provider change the list is
\* exactly the flattening of the provider's current groups.
C3_ListIsCurrentSnapshot ==
    phase = "rendered" => list = Flatten(resources)

\* The last onDidChangeResources replaced a longer list by a shorter one.
C3_Witness ==
    /\ phase = "rendered"
    /\ list # <<>>
    /\ removed > Len(list)

(***************************************************************************)
(* The list selection and the action runner.                               *)
(***************************************************************************)
\* A provider whose groups all hold every resource.
InitRunner ==
    /\ InitPanel
    /\ InitOthersIdle
    /\ InitInputIdle
    /\ InitIdentityIdle
    /\ resources = [g \in 1..MaxGroups |-> Group(g, FALSE, <<"a.ts", "b.ts">>)]

\* A click on row i selects it alone.
ListSelect(i) ==
    /\ phase = "rendered"
    /\ i \in 1..Len(list)
    /\ selection' = <<i>>
    /\ runs' = <<>>
    /\ UNCHANGED <<phase, resources, list, removed, inputVars, identityVars,
                 providersVars, layoutVars, errorVars>>

\* A ctrl-click on row i adds it to the selection, or takes it out.
ListToggleSelect(i) ==
    /\ phase = "rendered"
    /\ i \in 1..Len(list)
    /\ IF i \in Range(selection)
       THEN LET Other(k) == k # i IN selection' = SelectSeq(selection, Other)
       ELSE /\ Len(selection) < MaxSelection
            /\ selection' = Append(selection, i)
    /\ runs' = <<>>
    /\ UNCHANGED <<phase, resources, list, removed, inputVars, identityVars,
                 providersVars, layoutVars, errorVars>>

\* An action of the action bar of row i, or of the context menu opened on
\* row i, is run through a MultipleSelectionActionRunner.
RunAction(isMenuItemAction, i) ==
    /\ phase = "rendered"
    /\ i \in 1..Len(list)
    /\ runs' = runAction(isMenuItemAction, list[i], getSelectedResources(list, selection))
    /\ UNCHANGED <<phase, resources, list, removed, selection, inputVars, identityVars,
                 providersVars, layoutVars, errorVars>>

NextRunner ==
    \/ RenderBody
    \/ \E i \in 1..Len(list) : ListSelect(i)
    \/ \E i \in 1..Len(list) : ListToggleSelect(i)
    \/ \E isMenuItemAction \in BOOLEAN, i \in 1..Len(list) :
            RunAction(isMenuItemAction, i)

SpecRunner == InitRunner /\ [][NextRunner]_vars

(***************************************************************************)
(* Properties of the action runner.                                        *)
(***************************************************************************)
SelectedResources == getSelectedResources(list, selection)
\* The context of the action run last.
RunContext == runs[1].arguments[1]
\* The arguments that followed the context.
RunOthers == Tail(runs[1].arguments)

\* C5: a menu command run on a resource that is one of two or more selected
\* resources is invoked once, with the context first and then every other
\* selected resource in selection order, the context itself left out.
C5_MemberFansOut ==
    (/\ runs # <<>>
     /\ runs[1].menuItemAction
     /\ Len(SelectedResources) >= 2
     /\ RunContext \in Range(SelectedResources)) =>
        /\ Len(runs) = 1
        /\ Len(RunOthers) = Len(SelectedResources) - 1
        /\ RunContext \notin Range(RunOthers)
        /\ \E p \in 1..Len(SelectedResources) :
            /\ SelectedResources[p] = RunContext
            /\ \A k \in 1..Len(RunOthers) :
                RunOthers[k] = IF k < p THEN SelectedResources[k]
                               ELSE SelectedResources[k + 1]

\* A menu command was run on the second of three selected resources, which
\* were selected against the list order.
C5_Witness ==
    /\ runs # <<>>
    /\ runs[1].menuItemAction
    /\ Len(SelectedResources) = 3
    /\ selection[1] > selection[2]
    /\ RunContext = SelectedResources[2]
    /\ Len(RunOthers) = 2

\* C6: a menu command run on a resource outside the selected resources, or
\* with at most one resource selected, is invoked once with the context as
\* its only argument.
C6_NonMemberNoFanOut ==
    (/\ runs # <<>>
     /\ runs[1].menuItemAction
     /\ \/ RunContext \notin Range(SelectedResources)
        \/ Len(SelectedResources) <= 1) =>
        /\ Len(runs) = 1
        /\ RunOthers = <<>>

\* A menu command was run on a resource while three other resources were
\* selected.
C6_Witness ==
    /\ runs # <<>>
    /\ runs[1].menuItemAction
    /\ Len(SelectedResources) = 3
    /\ isSCMResource(RunContext)
    /\ RunContext \notin Range(SelectedResources)
    /\ runs[1].arguments = <<RunContext>>

(***************************************************************************)
(* The commit input: events.                                               *)
(***************************************************************************)
\* A repository whose input may already hold text, and a provider that may
\* define a commit template and an accept-input command.
InitInput ==
    /\ InitPanel
    /\ InitOthersIdle
    /\ InitIdentityIdle
    /\ resources = <<>>
    /\ inputValue \in Texts
    /\ commitTemplate \in {Undefined} \cup {Some(t) : t \in Templates}
    /\ acceptInputCommand \in {Undefined} \cup {Some(c) : c \in Commands}

\* The user changes the text of the input box to v.
UserEdit(v) ==
    /\ phase = "rendered"
    /\ v # viewValue
    /\ SetBinding(InputBoxFireDidChange([Binding(TRUE) EXCEPT !.view = v]),
                  Origin("viewEdit", <<v>>))
    /\ commands' = <<>>
    /\ UNCHANGED <<listVars, commitTemplate, acceptInputCommand, identityVars,
                 providersVars, layoutVars, errorVars>>

\* Something outside the panel sets repository.input.value to v.
ExternalInputChange(v) ==
    /\ SetBinding(SCMInputSetValue(Binding(Subscribed("repository.input.onDidChange")), v),
                  Origin("inputChange", <<v>>))
    /\ commands' = <<>>
    /\ UNCHANGED <<listVars, commitTemplate, acceptInputCommand, identityVars,
                 providersVars, layoutVars, errorVars>>

\* The provider's commit template becomes t and onDidChangeCommitTemplate fires.
ProviderChangeCommitTemplate(t) ==
    /\ commitTemplate' = t
    /\ SetBinding(IF Subscribed("onDidChangeCommitTemplate")
                    THEN updateInputBox(Binding(TRUE), t)
                    ELSE Binding(FALSE),
                  Origin("onDidChangeCommitTemplate", <<t>>))
    /\ commands' = <<>>
    /\ UNCHANGED <<listVars, acceptInputCommand, identityVars,
                 providersVars, layoutVars, errorVars>>

\* A keydown event e in the input box.
KeyDown(e) ==
    /\ Subscribed("keydown")
    /\ commands' = IF IsAcceptKey(e) THEN onDidAcceptInput(acceptInputCommand) ELSE <<>>
    /\ IF commands' = <<>>
         THEN pending' = pending
         ELSE /\ Total(pending) < MaxPending
              /\ pending' = Dispatched(pending, "accept")
    /\ opens' = <<>>
    /\ reports' = <<>>
    /\ SetBinding(Binding(TRUE), Origin("keydown", <<e>>))
    /\ UNCHANGED <<listVars, commitTemplate, acceptInputCommand, identityVars,
                 providersVars, layoutVars>>

\* The errors a promise is rejected with.
Errors == {"failed"}

\* The rejection handlers that report every error to onUnexpectedError.
RejectedUnexpected(kind, err) == <<[surface |-> "onUnexpectedError", error |-> err]>>

\* The rejection handler given to done() for a promise of the kind: the
\* reports it makes for the error err.
Rejected(kind, err) ==
    IF kind = "command"
      THEN <<[surface |-> "messageService", severity |-> "Error", error |-> err]>>
      ELSE <<[surface |-> "onUnexpectedError", error |-> err]>>

\* A promise of the kind is settled: resolved, or rejected with err.  done()
\* has no handler for a resolved promise.
Settle(kind, outcome, err) ==
    /\ pending[kind] > 0
    /\ pending' = Settled(pending, kind)
    /\ reports' = IF outcome = "rejected" THEN Rejected(kind, err) ELSE <<>>
    /\ opens' = <<>>
    /\ commands' = <<>>
    /\ runs' = <<>>
    /\ SetBinding(Binding(Subscribed("inputBox.onDidChange")), Origin(outcome, <<kind, err>>))
    /\ UNCHANGED <<phase, resources, list, removed, selection, commitTemplate,
                   acceptInputCommand, identityVars, providersVars, layoutVars>>

NextInput ==
    \/ RenderBody
    \/ \E v \in Texts : UserEdit(v)
    \/ \E v \in Texts : ExternalInputChange(v)
    \/ \E t \in {Undefined} \cup {Some(x) : x \in Templates} : ProviderChangeCommitTemplate(t)
    \/ \E e \in KeyEvents : KeyDown(e)
    \/ \E outcome \in {"resolved", "rejected"}, err \in Errors :
          Settle("accept", outcome, err)

SpecInput == InitInput /\ [][NextInput]_vars

C8_InitialValueTemplateOrEmpty ==
    origin.event = "renderBody" =>
        viewValue = IF IsDefined(commitTemplate) THEN Get(commitTemplate) ELSE ""

\* C8, amended: right after renderBody the input box shows the commit
\* template if the provider defines one, and the value of repository.input
\* if not.
C8_InitialValueTemplateOrInput ==
    origin.event = "renderBody" =>
        viewValue = IF IsDefined(commitTemplate) THEN Get(commitTemplate) ELSE inputValue

\* renderBody ran for a provider without a commit template on a repository
\* whose input held text.
C8_Witness ==
    /\ origin.event = "renderBody"
    /\ ~IsDefined(commitTemplate)
    /\ inputValue = "wip"
    /\ viewValue = "wip"

\* C9: after an onDidChangeCommitTemplate event of a provider whose commit
\* template is defined, the input box shows the template, whatever it showed
\* before.
C9_TemplateOverwrites ==
    (/\ phase = "rendered"
     /\ origin.event = "onDidChangeCommitTemplate"
     /\ IsDefined(commitTemplate)) =>
        viewValue = Get(commitTemplate)

\* A template change replaced text the user had typed.
C9_Witness ==
    /\ phase = "rendered"
    /\ origin.event = "onDidChangeCommitTemplate"
    /\ origin.before = "feat: x"
    /\ viewValue = "template"

\* The key of the keydown event handled last.
LastKey == origin.args[1]
IsCtrlCmdEnterOrS(e) ==
    e.ctrlCmd /\ ~e.shift /\ e.keyCode \in {"Enter", "KEY_S"}

\* C10: a Ctrl/Cmd+Enter or Ctrl/Cmd+S keydown executes the provider's
\* accept-input command once, with its arguments, if the provider declares
\* one; with no such command, or on any other key, no command is executed.
C10_AcceptInput ==
    origin.event = "keydown" =>
        IF IsCtrlCmdEnterOrS(LastKey) /\ IsDefined(acceptInputCommand)
        THEN /\ Len(commands) = 1
             /\ Head(commands[1]) = Get(acceptInputCommand).id
             /\ Tail(commands[1]) = Get(acceptInputCommand).arguments
        ELSE commands = <<>>

\* Ctrl/Cmd+S executed an accept-input command that takes two arguments.
C10_Witness ==
    /\ origin.event = "keydown"
    /\ LastKey = [ctrlCmd |-> TRUE, shift |-> FALSE, keyCode |-> "KEY_S"]
    /\ commands = << <<"git.commitAll", "repo", "all">> >>

(***************************************************************************)
(* identityProvider applied to two list elements.                          *)
(***************************************************************************)
InitIdentity ==
    /\ InitPanel
    /\ InitOthersIdle
    /\ InitInputIdle
    /\ resources = <<>>
    /\ subjects \in (IdentityGroups \cup IdentityResources)
                        \X (IdentityGroups \cup IdentityResources)
    /\ keys = <<>>

\* The list asks for the keys of both elements.
IdentifySubjects ==
    /\ keys = <<>>
    /\ keys' = <<identityProvider(subjects[1]), identityProvider(subjects[2])>>
    /\ UNCHANGED <<listVars, inputVars, subjects, providersVars, layoutVars, errorVars>>

\* The list asks again, for the same two elements in the other order.
IdentifyAgain ==
    /\ keys # <<>>
    /\ keys' = <<identityProvider(subjects[2]), identityProvider(subjects[1])>>
    /\ subjects' = <<subjects[2], subjects[1]>>
    /\ UNCHANGED <<listVars, inputVars, providersVars, layoutVars, errorVars>>

NextIdentity == IdentifySubjects \/ IdentifyAgain

SpecIdentity == InitIdentity /\ [][NextIdentity]_vars

ContextValueOf(r) ==
    IF isSCMResource(r) THEN r.resourceGroup.provider.contextValue
    ELSE r.provider.contextValue
GroupIdOf(r) == IF isSCMResource(r) THEN r.resourceGroup.id ELSE r.id

\* Two elements are the same entity: both resources, or both groups, that
\* agree on every component the key is made of.
SameEntity(r1, r2) ==
    /\ isSCMResource(r1) <=> isSCMResource(r2)
    /\ ContextValueOf(r1) = ContextValueOf(r2)
    /\ GroupIdOf(r1) = GroupIdOf(r2)
    /\ isSCMResource(r1) => r1.sourceUri = r2.sourceUri

\* C4: the keys of two elements are equal if and only if the elements are
\* both resources that agree on context value, group id and source location,
\* or both groups that agree on context value and group id; the key of a
\* group is never the key of a resource.
C4_KeysIdentifyEntities ==
    keys # <<>> => (keys[1] = keys[2] <=> SameEntity(subjects[1], subjects[2]))

(***************************************************************************)
(* The ProvidersPanel over a registry whose repositories come and go.      *)
(***************************************************************************)
\* The registry's repositories when the panel is constructed.
InitialRepositories == {<<>>, <<1>>, <<2, 1>>}

InitProviders ==
    /\ InitPanel
    /\ InitIdentityIdle
    /\ InitInputIdle
    /\ InitLayoutIdle
    /\ InitErrorsIdle
    /\ resources = <<>>
    /\ providersPhase = "constructed"
    /\ repositories \in InitialRepositories
    /\ providersList = <<>>
    /\ minimumBodySize = updateBodySize(repositories)
    /\ maximumBodySize = updateBodySize(repositories)
    /\ statusBarCommands = [r \in RepositoryIds |-> <<>>]
    /\ rowActions = <<>>

\* ProvidersPanel.update over the registry's repositories repos: the list is
\* spliced whole, which renders its rows, and the body is sized.
ProvidersUpdate(repos) ==
    /\ providersList' = Splice(providersList, 0, Len(providersList), repos)
    /\ rowActions' = RenderRows(providersList', statusBarCommands')
    /\ minimumBodySize' = updateBodySize(repos)
    /\ maximumBodySize' = updateBodySize(repos)

\* ProvidersPanel.renderBody: creates the list, subscribes to the registry,
\* and updates.
ProvidersRenderBody ==
    /\ providersPhase = "constructed"
    /\ providersPhase' = "rendered"
    /\ UNCHANGED <<repositories, statusBarCommands>>
    /\ ProvidersUpdate(repositories)
    /\ UNCHANGED <<listVars, inputVars, identityVars, layoutVars, errorVars>>

\* What the registry's onDidAddRepository and onDidRemoveRepository do, the
\* registry then holding repos: the panel updates when it listens.
RegistryChanged(event, repos) ==
    /\ repositories' = repos
    /\ UNCHANGED <<providersPhase, statusBarCommands>>
    /\ IF Live(providersPhase, ProvidersPanelDisposables, event)
         THEN ProvidersUpdate(repos)
         ELSE UNCHANGED <<providersList, rowActions, minimumBodySize,
                          maximumBodySize>>
    /\ UNCHANGED <<listVars, inputVars, identityVars, layoutVars, errorVars>>

\* A repository is registered: onDidAddRepository fires.
RegistryAdd(r) ==
    /\ r \notin Range(repositories)
    /\ RegistryChanged("onDidAddRepository", Append(repositories, r))

\* The i-th repository is disposed: onDidRemoveRepository fires.
RegistryRemove(i) ==
    /\ i \in 1..Len(repositories)
    /\ RegistryChanged("onDidRemoveRepository",
                       Splice(repositories, i - 1, 1, <<>>))

NextProviders ==
    \/ ProvidersRenderBody
    \/ \E r \in RepositoryIds : RegistryAdd(r)
    \/ \E i \in 1..MaxRepositories : RegistryRemove(i)

SpecProviders == InitProviders /\ [][NextProviders]_vars

\* C12: a rendered ProvidersPanel lists exactly the registry's repositories,
\* in the registry's order, and its minimum and maximum body size both equal
\* min(5, number of repositories) * 22.
C12_ListAndBodySize ==
    providersPhase = "rendered" =>
        LET count == Len(repositories)
            size == (IF count < 5 THEN count ELSE 5) * 22
        IN /\ providersList = repositories
           /\ minimumBodySize = size
           /\ maximumBodySize = size

\* C12 happens past the cap: a rendered panel over more than five
\* repositories, its body sized for five rows.
C12_Witness ==
    /\ providersPhase = "rendered"
    /\ Len(repositories) > 5
    /\ providersList = repositories
    /\ minimumBodySize = 110
    /\ maximumBodySize = 110

(***************************************************************************)
(* Disposal of the two panels, and events that come after it.              *)
(***************************************************************************)
\* ProviderPanel.dispose: releases this.disposables.
Dispose ==
    /\ phase # "disposed"
    /\ phase' = "disposed"
    /\ SetBinding(Binding(FALSE), Origin("dispose", <<>>))
    /\ commands' = <<>>
    /\ UNCHANGED <<resources, list, removed, selection, runs, commitTemplate,
                   acceptInputCommand, identityVars, providersVars, layoutVars,
                   errorVars>>

\* The dispose a ProvidersPanel inherits: releases this.disposables.  The
\* panel's list is not among them.
ProvidersDispose ==
    /\ providersPhase # "disposed"
    /\ providersPhase' = "disposed"
    /\ UNCHANGED <<repositories, providersList, minimumBodySize, maximumBodySize,
                   statusBarCommands, rowActions>>
    /\ UNCHANGED <<listVars, inputVars, identityVars, layoutVars, errorVars>>

\* The provider of the repository r changes its status bar commands to cmds
\* and fires onDidChange: updateActions runs in the row that shows r, while
\* the row's subscription is live.
ProviderChangeStatusBar(r, cmds) ==
    /\ statusBarCommands[r] # cmds
    /\ statusBarCommands' = [statusBarCommands EXCEPT ![r] = cmds]
    /\ rowActions' =
         IF r \in DOMAIN rowActions /\ RowsLive(providersPhase, ProvidersPanelDisposables)
           THEN [rowActions EXCEPT ![r] = statusBarCommands'[r]]
           ELSE rowActions
    /\ UNCHANGED <<providersPhase, repositories, providersList, minimumBodySize,
                   maximumBodySize>>
    /\ UNCHANGED <<listVars, inputVars, identityVars, layoutVars, errorVars>>

\* The repositories, groups and texts of the events around a disposal.
DisposeRepositoryIds == {1, 2}
DisposeGroupIds == {1}
DisposeTexts == {"", "wip"}

InitDispose ==
    /\ InitPanel
    /\ InitOthersIdle
    /\ InitInputIdle
    /\ InitIdentityIdle
    /\ resources = <<>>

NextDispose ==
    \/ RenderBody
    \/ Dispose
    \/ \E g \in DisposeGroupIds : ProviderRegisterGroup(g, FALSE)
    \/ \E i \in DisposeGroupIds : ProviderUnregisterGroup(i)
    \/ \E v \in DisposeTexts : ExternalInputChange(v)
    \/ ProviderChangeCommitTemplate(Some("template"))
    \/ ProvidersRenderBody
    \/ ProvidersDispose
    \/ \E r \in DisposeRepositoryIds : RegistryAdd(r)
    \/ \E i \in DisposeRepositoryIds : RegistryRemove(i)
    \/ \E r \in DisposeRepositoryIds, cmds \in StatusBarCommandLists :
          ProviderChangeStatusBar(r, cmds)

SpecDispose == InitDispose /\ [][NextDispose]_vars

\* What a ProviderPanel shows and does, and what a ProvidersPanel shows.
ProviderPanelState == <<list, selection, viewValue, commands, runs, layoutVars>>
ProvidersPanelState == <<providersList, rowActions, minimumBodySize, maximumBodySize>>

\* No event that comes after a ProviderPanel's dispose changes its state.
ProviderPanelQuiet ==
    [][phase = "disposed" => UNCHANGED ProviderPanelState]_vars

\* No event that comes after a ProvidersPanel's dispose changes its state.
ProvidersPanelQuiet ==
    [][providersPhase = "disposed" => UNCHANGED ProvidersPanelState]_vars

\* C11: after a panel is disposed none of its callbacks runs again, so a
\* provider, registry or input event fired after the disposal of a
\* ProviderPanel or of a ProvidersPanel changes no state of that panel.
C11_NoCallbackAfterDispose ==
    [][/\ phase = "disposed" => UNCHANGED ProviderPanelState
       /\ providersPhase = "disposed" => UNCHANGED ProvidersPanelState]_vars

(***************************************************************************)
(* ProviderPanel.layoutBody.                                               *)
(***************************************************************************)
\* The margin under the input box, and the input height from which the input
\* box container scrolls.
Margin == 12
ScrollThreshold == 134

\* The layout state at the start of an event: no list.layout call yet.
Layout ==
    [cachedHeight |-> cachedHeight, editorHeight |-> editorHeight,
     listContainerHeight |-> listContainerHeight, layouts |-> <<>>,
     scroll |-> scroll]

\* layoutBody that leaves no margin under the input box.
layoutBodyWithoutMargin(l, height) ==
    LET h == IF height.kind = "undefined" THEN l.cachedHeight ELSE height
        listHeight == JsSub(h, l.editorHeight)
    IN  [l EXCEPT !.layouts = <<h, listHeight>>,
                  !.cachedHeight = h,
                  !.listContainerHeight = listHeight,
                  !.scroll = JsGe(l.editorHeight, JsNumber(ScrollThreshold))]

\* ProviderPanel.layoutBody(height), height undefined when the argument is
\* left out: the parameter then defaults to the cached height.  The guard
\* compares !height, a boolean, with undefined.
layoutBody(l, height) ==
    LET h == IF height.kind = "undefined" THEN l.cachedHeight ELSE height
        listHeight == JsSub(h, JsAdd(l.editorHeight, JsNumber(Margin)))
    IN  IF JsStrictEquals(JsNot(h), JsUndefined)
          THEN l
          ELSE [l EXCEPT !.layouts = <<h, listHeight>>,
                         !.cachedHeight = h,
                         !.listContainerHeight = listHeight,
                         !.scroll = JsGe(l.editorHeight, JsNumber(ScrollThreshold))]

\* The layout state l becomes the state.
SetLayout(l) ==
    /\ cachedHeight' = l.cachedHeight
    /\ editorHeight' = l.editorHeight
    /\ listContainerHeight' = l.listContainerHeight
    /\ layouts' = l.layouts
    /\ scroll' = l.scroll

\* The heights the host gives to the panel, and the heights the input box
\* reports.
Heights == {100, 300, 600}
EditorHeights == {26, 50, 133, 134, 200}

InitLayout ==
    /\ InitPanel
    /\ InitProvidersIdle
    /\ InitErrorsIdle
    /\ InitInputIdle
    /\ InitIdentityIdle
    /\ resources = <<>>
    /\ cachedHeight = JsUndefined
    /\ editorHeight \in {JsNumber(e) : e \in EditorHeights}
    /\ listContainerHeight = JsUndefined
    /\ layouts = <<>>
    /\ scroll = FALSE

\* The host lays the rendered panel out with the height H.
LayoutBody(H) ==
    /\ phase = "rendered"
    /\ SetLayout(layoutBody(Layout, JsNumber(H)))
    /\ SetBinding(Binding(TRUE), Origin("layoutBody", <<JsNumber(H)>>))
    /\ commands' = <<>>
    /\ UNCHANGED <<listVars, commitTemplate, acceptInputCommand, identityVars,
                   providersVars, errorVars>>

\* The input box reports the new height E: onDidHeightChange runs layoutBody().
InputHeightChange(E) ==
    /\ Subscribed("inputBox.onDidHeightChange")
    /\ editorHeight # JsNumber(E)
    /\ SetLayout(layoutBody([Layout EXCEPT !.editorHeight = JsNumber(E)], JsUndefined))
    /\ SetBinding(Binding(TRUE), Origin("onDidHeightChange", <<JsNumber(E)>>))
    /\ commands' = <<>>
    /\ UNCHANGED <<listVars, commitTemplate, acceptInputCommand, identityVars,
                   providersVars, errorVars>>

NextLayout ==
    \/ RenderBody
    \/ \E H \in Heights : LayoutBody(H)
    \/ \E v \in Texts : UserEdit(v)
    \/ \E E \in EditorHeights : InputHeightChange(E)

SpecLayout == InitLayout /\ [][NextLayout]_vars

\* The total height and the input height of the last layout event.
LastHeight == cachedHeight.n
LastEditorHeight == editorHeight.n

\* C13: layoutBody with a total height H and an input height E lays the list
\* out with H - (E + 12) and gives that height to the list container, caches
\* H, and marks the input box container as scrolling exactly when E >= 134;
\* an input height change that comes later lays out again with the cached H.
C13_HeightSplit ==
    [][/\ origin'.event = "layoutBody" =>
            LET H == origin'.args[1].n
                E == editorHeight.n
            IN  /\ layouts' = <<JsNumber(H), JsNumber(H - (E + 12))>>
                /\ listContainerHeight' = JsNumber(H - (E + 12))
                /\ cachedHeight' = JsNumber(H)
                /\ scroll' = (E >= 134)
       /\ (origin'.event = "onDidHeightChange" /\ cachedHeight.kind = "number") =>
            LET H == cachedHeight.n
                E == origin'.args[1].n
            IN  /\ layouts' = <<JsNumber(H), JsNumber(H - (E + 12))>>
                /\ listContainerHeight' = JsNumber(H - (E + 12))
                /\ cachedHeight' = JsNumber(H)
                /\ scroll' = (E >= 134)]_vars

\* C13 happens: after a layout with the height 300 the input box grew to 134,
\* and the list was laid out again within 300, the input box container
\* scrolling.
C13_Witness ==
    /\ origin.event = "onDidHeightChange"
    /\ LastHeight = 300
    /\ LastEditorHeight = 134
    /\ cachedHeight.kind = "number"
    /\ layouts = <<JsNumber(300), JsNumber(154)>>
    /\ listContainerHeight = JsNumber(154)
    /\ scroll

\* C15: layoutBody run without a height while none is cached returns without
\* laying out the list, without setting the list container height and
\* without changing the cached height; the list is never laid out with a
\* height that is undefined or not a number.
C15_NoLayoutWithoutHeight ==
    /\ (origin.event = "onDidHeightChange" /\ cachedHeight.kind = "undefined") =>
          /\ layouts = <<>>
          /\ listContainerHeight = JsUndefined
    /\ \A i \in 1..Len(layouts) : layouts[i].kind = "number"

(***************************************************************************)
(* Commands and opens that fail.                                           *)
(***************************************************************************)
\* The promise actionRunner.run returns for a contributed command: the promise
\* of the action's run, a rejection passed on to the caller.
RunPromise == "command"

\* SCMMenuItemActionItem.onClick on the action bar of row i: the contributed
\* command is run through the row's MultipleSelectionActionRunner, and the
\* promise of the run is observed.
ClickActionItem(i) ==
    /\ phase = "rendered"
    /\ i \in 1..Len(list)
    /\ Total(pending) < MaxPending
    /\ runs' = runAction(TRUE, list[i], getSelectedResources(list, selection))
    /\ pending' = Dispatched(pending, RunPromise)
    /\ opens' = <<>>
    /\ reports' = <<>>
    /\ commands' = <<>>
    /\ SetBinding(Binding(TRUE), Origin("click", <<i>>))
    /\ UNCHANGED <<phase, resources, list, removed, selection, commitTemplate,
                   acceptInputCommand, identityVars, providersVars, layoutVars>>

\* The list's onOpen for row i: ProviderPanel.open runs for a resource, and
\* calls its open().
ListOpen(i) ==
    /\ Subscribed("list.onOpen")
    /\ i \in 1..Len(list)
    /\ IF isSCMResource(list[i])
         THEN /\ Total(pending) < MaxPending
              /\ opens' = <<list[i]>>
              /\ pending' = Dispatched(pending, "open")
         ELSE /\ opens' = <<>>
              /\ pending' = pending
    /\ reports' = <<>>
    /\ commands' = <<>>
    /\ runs' = <<>>
    /\ SetBinding(Binding(TRUE), Origin("onOpen", <<i>>))
    /\ UNCHANGED <<phase, resources, list, removed, selection, commitTemplate,
                   acceptInputCommand, identityVars, providersVars, layoutVars>>

\* A provider with one group of one resource, and with or without an
\* accept-input command.
InitErrors ==
    /\ InitPanel
    /\ InitOthersIdle
    /\ InitIdentityIdle
    /\ resources = <<Group(1, FALSE, <<"a.ts">>)>>
    /\ inputValue \in Texts
    /\ commitTemplate = Undefined
    /\ acceptInputCommand \in {Undefined} \cup {Some(c) : c \in Commands}

NextErrors ==
    \/ RenderBody
    \/ \E i \in 1..Len(list) : ClickActionItem(i)
    \/ \E i \in 1..Len(list) : ListOpen(i)
    \/ \E e \in KeyEvents : KeyDown(e)
    \/ \E kind \in PromiseKinds, outcome \in {"resolved", "rejected"}, err \in Errors :
          Settle(kind, outcome, err)

SpecErrors == InitErrors /\ [][NextErrors]_vars

\* The kind of the promise the last event settled, and its error.
SettledKind == origin.args[1]
SettledError == origin.args[2]

\* C14: a rejection is reported once and nothing is retried: a rejected
\* command run from an action item is shown by the message service with the
\* severity Error, a rejected open() and a rejected accept-input command go to
\* onUnexpectedError; the rejection runs no action, executes no command,
\* opens nothing and dispatches no promise, and leaves the list and the
\* input value as they were.
C14_FailureReportedOnce ==
    [][origin'.event = "rejected" =>
         LET kind == origin'.args[1]
             err == origin'.args[2]
         IN  /\ Len(reports') = 1
             /\ reports'[1].error = err
             /\ kind = "command" =>
                  /\ reports'[1].surface = "messageService"
                  /\ reports'[1].severity = "Error"
             /\ kind \in {"open", "accept"} =>
                  reports'[1].surface = "onUnexpectedError"
             /\ runs' = <<>> /\ commands' = <<>> /\ opens' = <<>>
             /\ Total(pending') = Total(pending) - 1
             /\ pending'[kind] = pending[kind] - 1
             /\ UNCHANGED <<list, selection, viewValue, inputValue>>]_vars

\* C14 happens for a command: the click's promise was rejected, and the
\* message service shows the error.
C14_Witness ==
    /\ origin.event = "rejected"
    /\ SettledKind = "command"
    /\ reports = <<[surface |-> "messageService", severity |-> "Error",
                    error |-> SettledError]>>
    /\ runs = <<>>
    /\ list # <<>>

\* C14 happens for an open and for an accept-input command.
C14_WitnessOpen ==
    /\ origin.event = "rejected"
    /\ SettledKind = "open"
    /\ reports = <<[surface |-> "onUnexpectedError", error |-> SettledError]>>

C14_WitnessAccept ==
    /\ origin.event = "rejected"
    /\ SettledKind = "accept"
    /\ reports = <<[surface |-> "onUnexpectedError", error |-> SettledError]>>
====
